---- MODULE Spec2Model ----
(***************************************************************************)
(* A model of <lmdb++.h>, the C++11 wrapper for LMDB: the error taxonomy   *)
(* (lmdb::error::raise), the procedural interface (one checked wrapper per *)
(* engine call) and the resource classes env, txn, dbi and cursor with     *)
(* their raw `_handle` fields.                                             *)
(*                                                                         *)
(* The storage engine (the ::mdb_* functions of <lmdb.h>) is an external   *)
(* collaborator: the status code of every engine call is an input, drawn   *)
(* from StatusCodes.  What the wrapper does with it is the model.          *)
(*                                                                         *)
(* Spec takes the engine's answers as free inputs.  The specifications     *)
(* that start in InitBind also keep what the engine knows: which handle    *)
(* was made from which (SpecBind, SpecDbi) and the contents of the store   *)
(* (SpecData, SpecCursor); there the answer to a lookup follows from the   *)
(* store.                                                                  *)
(***************************************************************************)
EXTENDS Integers, Sequences, FiniteSets

(***************************************************************************)
(* Bounds of the model.                                                    *)
(***************************************************************************)
\* How many handles of each kind (MDB_env*, MDB_txn*, MDB_cursor*) the
\* engine hands out in one behaviour.
MaxHandles == 2

\* How many keys a database can hold: the keys are 1..MaxKey.
MaxKey == 2

\* The engine's close is followed on one handle at most this many times.
MaxCloses == 2

(***************************************************************************)
(* Program constants.                                                      *)
(***************************************************************************)
NULL == 0
MDB_SUCCESS == 0
MDB_KEYEXIST == -30799
MDB_NOTFOUND == -30798
MDB_CORRUPTED == -30796
MDB_PANIC == -30795

\* Two codes the switch of raise() does not name: MDB_MAP_FULL and EINVAL.
OtherCodes == {-30792, 22}

\* The status codes an engine call may return.
StatusCodes ==
  {MDB_SUCCESS, MDB_KEYEXIST, MDB_NOTFOUND, MDB_CORRUPTED, MDB_PANIC}
    \cup OtherCodes

\* The engine's status for a call given the handles hs: it cannot succeed
\* on a null handle; otherwise every status is possible.
EngineStatus(hs) ==
  IF NULL \in hs THEN StatusCodes \ {MDB_SUCCESS} ELSE StatusCodes

\* unsigned int flags: zero and one nonzero value (MDB_NOSUBDIR).
FlagValues == {0, 16384}

\* The wrapper objects of the program.
EnvW == {"e1"}
TxnW == {"t1"}
DbiW == {"d1"}
CurW == {"c1"}

\* The origin a caller passes to a direct lmdb::error::raise().
Origins == {"caller"}

\* The MDB_dbi identifiers the engine answers dbi_open with.
DbiIds == {1, 2}

(***************************************************************************)
(* State.                                                                  *)
(***************************************************************************)
VARIABLES
  env,       \* env[w]: [alive, handle]: the lmdb::env object w and its _handle
  txn,       \* txn[w]: [alive, handle]: the lmdb::txn object w and its _handle
  dbi,       \* dbi[w]: [alive, handle]: the lmdb::dbi object w and its _handle
  cur,       \* cur[w]: [alive, handle]: the lmdb::cursor object w and its _handle
  nEnv,      \* MDB_env* handles the engine has handed out
  nTxn,      \* MDB_txn* handles the engine has handed out
  nCur,      \* MDB_cursor* handles the engine has handed out
  envCloses, \* engine: mdb_env_close calls received, per MDB_env*
  curCloses, \* engine: mdb_cursor_close calls received, per MDB_cursor*
  track,     \* whether this behaviour keeps the engine's knowledge below
  txnEnv,    \* txnEnv[w]: the MDB_env* the handle of txn object w was begun on
  dbiTxn,    \* dbiTxn[w]: the MDB_txn* the handle of dbi object w was opened in
  curTxn,    \* curTxn[w]: the MDB_txn* the handle of cursor object w is bound to
             \* (both become Ended(h) once transaction h is committed or
             \* aborted)
  committed, \* engine: the committed store: the value of each key, <<>> if none
  view,      \* engine: the store as the active transaction sees it, with its
             \* own writes; NoView when track is off or no transaction is active
  scan,      \* scan[w]: how cursor object w was last positioned, and the keys
             \* it has returned since
  last       \* the outcome of the last operation the program performed

\* What each handle is bound to.
bind == <<track, txnEnv, dbiTxn, curTxn>>

\* What the engine stores.
data == <<committed, view, scan>>

vars ==
  <<env, txn, dbi, cur, nEnv, nTxn, nCur, envCloses, curCloses, bind, data,
    last>>

Handles == 1..MaxHandles

\* A wrapper object that does not exist (not yet constructed, or destroyed).
Gone == [alive |-> FALSE, handle |-> NULL]

\* A binding to transaction h after mdb_txn_commit or mdb_txn_abort ended h.
Ended(h) == MaxHandles + h

\* The bindings f after object w was given a handle made from handle h.
Bind(f, w, h) == IF track THEN [f EXCEPT ![w] = h] ELSE f

\* The bindings f after the engine was told to end transaction h.
EndTxn(f, h) ==
  [w \in DOMAIN f |-> IF h # NULL /\ f[w] = h THEN Ended(h) ELSE f[w]]

\* The keys a database can hold.
Keys == 1..MaxKey

\* The values a caller stores: byte sequences of length one and two.
Vals == {<<1>>, <<1, 2>>}

\* The bytes memory can hold behind a stored value.
Bytes == {1, 2}

\* sizeof(V) of the value types dbi::get is instantiated with.
ValueSizes == {1, 2}

\* A store with no key.
EmptyStore == [k \in Keys |-> <<>>]

\* No transaction is active.
NoView == <<>>

\* A cursor that has not been positioned.
NoScan == [from |-> "none", keys |-> <<>>]

\* The keys present in store s.
Present(s) == {k \in Keys : s[k] # <<>>}

\* What mdb_stat reports for store s.
MdbStat(s) ==
  [ms_entries |-> Cardinality(Present(s)),
   ms_depth |-> IF Present(s) = {} THEN 0 ELSE 1]

\* What a transaction reads: the active view, or the committed
\* store where no view is kept.
Seen == IF view = NoView THEN committed ELSE view

\* A wrapper object holding handle h.
Holding(h) == [alive |-> TRUE, handle |-> h]

(***************************************************************************)
(* Error taxonomy.                                                         *)
(***************************************************************************)
\* No exception in flight.
NoErr == [kind |-> "none", code |-> 0, origin |-> ""]

\* lmdb::error{origin, rc} of the given concrete class.
Error(kind, origin, rc) == [kind |-> kind, code |-> rc, origin |-> origin]

\* A slip: status zero taken for "nothing to report".
raise_zero_silent(origin, rc) ==
  IF rc = MDB_SUCCESS THEN NoErr
  ELSE IF rc = MDB_KEYEXIST THEN Error("key_exist_error", origin, rc)
  ELSE IF rc = MDB_NOTFOUND THEN Error("not_found_error", origin, rc)
  ELSE IF rc = MDB_CORRUPTED THEN Error("corrupted_error", origin, rc)
  ELSE IF rc = MDB_PANIC THEN Error("panic_error", origin, rc)
  ELSE Error("runtime_error", origin, rc)

\* A slip: the MDB_NOTFOUND case of the switch missing.
raise_no_notfound(origin, rc) ==
  IF rc = MDB_KEYEXIST THEN Error("key_exist_error", origin, rc)
  ELSE IF rc = MDB_CORRUPTED THEN Error("corrupted_error", origin, rc)
  ELSE IF rc = MDB_PANIC THEN Error("panic_error", origin, rc)
  ELSE Error("runtime_error", origin, rc)

\* lmdb::error::raise: the exception thrown for (origin, rc).  [[noreturn]]:
\* every path of the switch throws, the default included.
raise(origin, rc) ==
  IF rc = MDB_KEYEXIST THEN Error("key_exist_error", origin, rc)
  ELSE IF rc = MDB_NOTFOUND THEN Error("not_found_error", origin, rc)
  ELSE IF rc = MDB_CORRUPTED THEN Error("corrupted_error", origin, rc)
  ELSE IF rc = MDB_PANIC THEN Error("panic_error", origin, rc)
  ELSE Error("runtime_error", origin, rc)

(***************************************************************************)
(* Procedural interface.  Each operator is one wrapper function: the       *)
(* engine call it makes (fn, the handle passed, the status returned) and   *)
(* the exception it leaves in flight.                                      *)
(***************************************************************************)
\* An engine call returning a status (dbi: its MDB_dbi argument, 0: none).
Call(fn, h, rc) == [fn |-> fn, h |-> h, rc |-> rc, void |-> FALSE, dbi |-> 0]

\* An engine call returning nothing.
VoidCall(fn, h) == [fn |-> fn, h |-> h, rc |-> 0, void |-> TRUE, dbi |-> 0]

\* An engine call on (txn h, dbi d) returning a status.
DbiCall(fn, h, d, rc) == [Call(fn, h, rc) EXCEPT !.dbi = d]

env_create(h, rc) ==
  [call |-> Call("mdb_env_create", h, rc),
   err |-> IF rc # MDB_SUCCESS THEN raise("mdb_env_create", rc) ELSE NoErr]

env_open(h, rc) ==
  [call |-> Call("mdb_env_open", h, rc),
   err |-> IF rc # MDB_SUCCESS THEN raise("mdb_env_open", rc) ELSE NoErr]

env_sync(h, rc) ==
  [call |-> Call("mdb_env_sync", h, rc),
   err |-> IF rc # MDB_SUCCESS THEN raise("mdb_env_sync", rc) ELSE NoErr]

env_close(h) ==
  [call |-> VoidCall("mdb_env_close", h), err |-> NoErr]

env_set_flags(h, rc) ==
  [call |-> Call("mdb_env_set_flags", h, rc),
   err |-> IF rc # MDB_SUCCESS THEN raise("mdb_env_set_flags", rc) ELSE NoErr]

env_set_map_size(h, rc) ==
  [call |-> Call("mdb_env_set_mapsize", h, rc),
   err |-> IF rc # MDB_SUCCESS THEN raise("mdb_env_set_mapsize", rc) ELSE NoErr]

env_set_max_readers(h, rc) ==
  [call |-> Call("mdb_env_set_maxreaders", h, rc),
   err |-> IF rc # MDB_SUCCESS THEN raise("mdb_env_set_maxreaders", rc)
           ELSE NoErr]

env_set_max_dbs(h, rc) ==
  [call |-> Call("mdb_env_set_maxdbs", h, rc),
   err |-> IF rc # MDB_SUCCESS THEN raise("mdb_env_set_maxdbs", rc) ELSE NoErr]

txn_begin(h, rc) ==
  [call |-> Call("mdb_txn_begin", h, rc),
   err |-> IF rc # MDB_SUCCESS THEN raise("mdb_txn_begin", rc) ELSE NoErr]

txn_env(h) ==
  [call |-> VoidCall("mdb_txn_env", h), err |-> NoErr]

\* A slip: a failed commit reported to nobody.
txn_commit_swallow(h, rc) ==
  [call |-> Call("mdb_txn_commit", h, rc), err |-> NoErr]

txn_commit(h, rc) ==
  [call |-> Call("mdb_txn_commit", h, rc),
   err |-> IF rc # MDB_SUCCESS THEN raise("mdb_txn_commit", rc) ELSE NoErr]

txn_abort(h) ==
  [call |-> VoidCall("mdb_txn_abort", h), err |-> NoErr]

txn_reset(h) ==
  [call |-> VoidCall("mdb_txn_reset", h), err |-> NoErr]

txn_renew(h, rc) ==
  [call |-> Call("mdb_txn_renew", h, rc),
   err |-> IF rc # MDB_SUCCESS THEN raise("mdb_txn_renew", rc) ELSE NoErr]

dbi_open(h, rc) ==
  [call |-> Call("mdb_dbi_open", h, rc),
   err |-> IF rc # MDB_SUCCESS THEN raise("mdb_dbi_open", rc) ELSE NoErr]

dbi_stat(h, d, rc) ==
  [call |-> DbiCall("mdb_stat", h, d, rc),
   err |-> IF rc # MDB_SUCCESS THEN raise("mdb_stat", rc) ELSE NoErr]

dbi_flags(h, d, rc) ==
  [call |-> DbiCall("mdb_dbi_flags", h, d, rc),
   err |-> IF rc # MDB_SUCCESS THEN raise("mdb_dbi_flags", rc) ELSE NoErr]

\* A slip: MDB_NOTFOUND treated like every other failure.
dbi_get_strict(h, d, rc) ==
  [call |-> DbiCall("mdb_get", h, d, rc),
   err |-> IF rc # MDB_SUCCESS THEN raise("mdb_get", rc) ELSE NoErr,
   ret |-> (rc = MDB_SUCCESS)]

dbi_get(h, d, rc) ==
  [call |-> DbiCall("mdb_get", h, d, rc),
   err |-> IF rc # MDB_SUCCESS /\ rc # MDB_NOTFOUND
           THEN raise("mdb_get", rc) ELSE NoErr,
   ret |-> (rc = MDB_SUCCESS)]

cursor_open(h, d, rc) ==
  [call |-> DbiCall("mdb_cursor_open", h, d, rc),
   err |-> IF rc # MDB_SUCCESS THEN raise("mdb_cursor_open", rc) ELSE NoErr]

cursor_close(h) ==
  [call |-> VoidCall("mdb_cursor_close", h), err |-> NoErr]

cursor_renew(h, rc) ==
  [call |-> Call("mdb_cursor_renew", h, rc),
   err |-> IF rc # MDB_SUCCESS THEN raise("mdb_cursor_renew", rc) ELSE NoErr]

cursor_get(h, rc) ==
  [call |-> Call("mdb_cursor_get", h, rc),
   err |-> IF rc # MDB_SUCCESS /\ rc # MDB_NOTFOUND
           THEN raise("mdb_cursor_get", rc) ELSE NoErr,
   ret |-> (rc = MDB_SUCCESS)]

cursor_put(h, rc) ==
  [call |-> Call("mdb_cursor_put", h, rc),
   err |-> IF rc # MDB_SUCCESS THEN raise("mdb_cursor_put", rc) ELSE NoErr]

cursor_del(h, rc) ==
  [call |-> Call("mdb_cursor_del", h, rc),
   err |-> IF rc # MDB_SUCCESS THEN raise("mdb_cursor_del", rc) ELSE NoErr]

cursor_count(h, rc) ==
  [call |-> Call("mdb_cursor_count", h, rc),
   err |-> IF rc # MDB_SUCCESS THEN raise("mdb_cursor_count", rc) ELSE NoErr]

(***************************************************************************)
(* The outcome of an operation: which operation (op) on which object (w),  *)
(* the object's _handle before it (pre), its integer argument (arg), the   *)
(* engine calls it made in order (calls), the exception it left in flight  *)
(* (err) and what it returned (ret: "void", "true", "false", "handle",     *)
(* "object", or "none" when it raised; retH: the handle returned).  val is  *)
(* the value it returned or wrote to the caller's output argument (<<>>:   *)
(* none, the output argument is as the caller left it) and read the number *)
(* of bytes it copied into that argument.                                  *)
(***************************************************************************)
Outcome(op, w, pre, arg, calls, err, ret, retH) ==
  [op |-> op, w |-> w, pre |-> pre, arg |-> arg, calls |-> calls,
   err |-> err, ret |-> ret, retH |-> retH, val |-> <<>>, read |-> 0]

\* bool as the outcome's ret.
Bool(b) == IF b THEN "true" ELSE "false"

\* What a function returns: nothing when an exception is in flight.
Returns(err, ret) == IF err # NoErr THEN "none" ELSE ret

Init ==
  /\ env = [w \in EnvW |-> Gone]
  /\ txn = [w \in TxnW |-> Gone]
  /\ dbi = [w \in DbiW |-> Gone]
  /\ cur = [w \in CurW |-> Gone]
  /\ nEnv = 0
  /\ nTxn = 0
  /\ nCur = 0
  /\ envCloses = [h \in Handles |-> 0]
  /\ curCloses = [h \in Handles |-> 0]
  /\ track = FALSE
  /\ txnEnv = [w \in TxnW |-> NULL]
  /\ dbiTxn = [w \in DbiW |-> NULL]
  /\ curTxn = [w \in CurW |-> NULL]
  /\ committed = EmptyStore
  /\ view = NoView
  /\ scan = [w \in CurW |-> NoScan]
  /\ last = Outcome("start", "", NULL, 0, <<>>, NoErr, "void", NULL)

\* The same state, in a behaviour that records the bindings.
InitBind ==
  /\ env = [w \in EnvW |-> Gone]
  /\ txn = [w \in TxnW |-> Gone]
  /\ dbi = [w \in DbiW |-> Gone]
  /\ cur = [w \in CurW |-> Gone]
  /\ nEnv = 0 /\ nTxn = 0 /\ nCur = 0
  /\ envCloses = [h \in Handles |-> 0]
  /\ curCloses = [h \in Handles |-> 0]
  /\ track = TRUE
  /\ txnEnv = [w \in TxnW |-> NULL]
  /\ dbiTxn = [w \in DbiW |-> NULL]
  /\ curTxn = [w \in CurW |-> NULL]
  /\ committed = EmptyStore
  /\ view = NoView
  /\ scan = [w \in CurW |-> NoScan]
  /\ last = Outcome("start", "", NULL, 0, <<>>, NoErr, "void", NULL)

(***************************************************************************)
(* lmdb::error::raise called directly: it is a public static member.       *)
(***************************************************************************)
ErrorRaise(origin, rc) ==
  /\ last' = Outcome("error::raise", "", NULL, rc, <<>>, raise(origin, rc),
                     Returns(raise(origin, rc), "void"), NULL)
  /\ UNCHANGED <<env, txn, dbi, cur, nEnv, nTxn, nCur, envCloses,
                 curCloses>>
  /\ UNCHANGED bind
  /\ UNCHANGED data

\* env::create whose catch block rethrows without lmdb::env_close(handle).
EnvCreateLeak(w, flags) ==
  /\ ~env[w].alive
  /\ nEnv < MaxHandles
  /\ \E rc1 \in StatusCodes :
       LET h == nEnv + 1
           r1 == env_create(IF rc1 = MDB_SUCCESS THEN h ELSE NULL, rc1)
       IN IF r1.err # NoErr
          THEN /\ last' = Outcome("env::create", w, NULL, flags, <<r1.call>>,
                                  r1.err, "none", NULL)
               /\ UNCHANGED <<env, nEnv>>
          ELSE \E rc2 \in StatusCodes :
                 LET r2 == env_set_flags(h, rc2)
                 IN IF flags # 0 /\ r2.err # NoErr
                    THEN /\ last' = Outcome("env::create", w, NULL, flags,
                                            <<r1.call, r2.call>>, r2.err,
                                            "none", NULL)
                         /\ nEnv' = h
                         /\ UNCHANGED env
                    ELSE /\ last' = Outcome("env::create", w, NULL, flags,
                                            IF flags = 0 THEN <<r1.call>>
                                            ELSE <<r1.call, r2.call>>,
                                            NoErr, "object", h)
                         /\ env' = [env EXCEPT ![w] = Holding(h)]
                         /\ nEnv' = h
  /\ UNCHANGED <<txn, dbi, cur, nTxn, nCur, envCloses, curCloses>>
  /\ UNCHANGED bind
  /\ UNCHANGED data

(***************************************************************************)
(* class lmdb::env                                                         *)
(***************************************************************************)
\* env::create(flags): a fresh handle from the engine, the flags applied
\* when nonzero; a failure to apply them closes the handle and rethrows.
EnvCreate(w, flags) ==
  /\ ~env[w].alive
  /\ nEnv < MaxHandles
  /\ \E rc1 \in StatusCodes :
       LET h == nEnv + 1
           r1 == env_create(IF rc1 = MDB_SUCCESS THEN h ELSE NULL, rc1)
       IN IF r1.err # NoErr
          THEN /\ last' = Outcome("env::create", w, NULL, flags, <<r1.call>>,
                                  r1.err, "none", NULL)
               /\ UNCHANGED <<env, nEnv, envCloses>>
          ELSE IF flags = 0
          THEN /\ last' = Outcome("env::create", w, NULL, flags, <<r1.call>>,
                                  NoErr, "object", h)
               /\ env' = [env EXCEPT ![w] = Holding(h)]
               /\ nEnv' = h
               /\ UNCHANGED envCloses
          ELSE \E rc2 \in StatusCodes :
                 LET r2 == env_set_flags(h, rc2)
                     r3 == env_close(h)
                 IN IF r2.err # NoErr
                    THEN /\ last' = Outcome("env::create", w, NULL, flags,
                                            <<r1.call, r2.call, r3.call>>,
                                            r2.err, "none", NULL)
                         /\ nEnv' = h
                         /\ envCloses' = [envCloses EXCEPT ![h] = @ + 1]
                         /\ UNCHANGED env
                    ELSE /\ last' = Outcome("env::create", w, NULL, flags,
                                            <<r1.call, r2.call>>, NoErr,
                                            "object", h)
                         /\ env' = [env EXCEPT ![w] = Holding(h)]
                         /\ nEnv' = h
                         /\ UNCHANGED envCloses
  /\ UNCHANGED <<txn, dbi, cur, nTxn, nCur, curCloses>>
  /\ UNCHANGED bind
  /\ UNCHANGED data

\* A slip: close() reporting a second close as a misuse.
EnvCloseStrict(w) ==
  /\ env[w].alive
  /\ LET h == env[w].handle
         r == env_close(h)
     IN IF h # NULL
        THEN /\ last' = Outcome("env::close", w, h, 0, <<r.call>>, r.err,
                                Returns(r.err, "void"), NULL)
             /\ envCloses' = [envCloses EXCEPT ![h] = @ + 1]
             /\ env' = [env EXCEPT ![w].handle = NULL]
        ELSE /\ last' = Outcome("env::close", w, h, 0, <<>>,
                                Error("logic_error", "mdb_env_close", 22),
                                "none", NULL)
             /\ UNCHANGED <<env, envCloses>>
  /\ UNCHANGED <<txn, dbi, cur, nEnv, nTxn, nCur, curCloses>>
  /\ UNCHANGED bind
  /\ UNCHANGED data

\* A slip: close() without the null check and without the null-out.
EnvCloseUnguarded(w) ==
  /\ env[w].alive
  /\ LET h == env[w].handle
         r == env_close(h)
     IN /\ last' = Outcome("env::close", w, h, 0, <<r.call>>, r.err,
                           Returns(r.err, "void"), NULL)
        /\ envCloses' = IF h # NULL
                        THEN [envCloses EXCEPT ![h] = @ + 1] ELSE envCloses
        /\ UNCHANGED env
  /\ UNCHANGED <<txn, dbi, cur, nEnv, nTxn, nCur, curCloses>>
  /\ UNCHANGED bind
  /\ UNCHANGED data

\* env::close(): the engine's close on a non-null handle, then the
\* handle nulled; nothing on a null handle.
EnvClose(w) ==
  /\ env[w].alive
  /\ LET h == env[w].handle
         r == env_close(h)
     IN IF h # NULL
        THEN /\ last' = Outcome("env::close", w, h, 0, <<r.call>>, r.err,
                                Returns(r.err, "void"), NULL)
             /\ envCloses' = [envCloses EXCEPT ![h] = @ + 1]
             /\ env' = [env EXCEPT ![w].handle = NULL]
        ELSE /\ last' = Outcome("env::close", w, h, 0, <<>>, NoErr, "void",
                                NULL)
             /\ UNCHANGED <<env, envCloses>>
  /\ UNCHANGED <<txn, dbi, cur, nEnv, nTxn, nCur, curCloses>>
  /\ UNCHANGED bind
  /\ UNCHANGED data

\* env::~env(): try { close(); } catch (...) {}, and the object is gone.
EnvDtor(w) ==
  /\ env[w].alive
  /\ LET h == env[w].handle
         r == env_close(h)
     IN IF h # NULL
        THEN /\ last' = Outcome("env::~env", w, h, 0, <<r.call>>, NoErr,
                                "void", NULL)
             /\ envCloses' = [envCloses EXCEPT ![h] = @ + 1]
        ELSE /\ last' = Outcome("env::~env", w, h, 0, <<>>, NoErr, "void",
                                NULL)
             /\ UNCHANGED envCloses
  /\ env' = [env EXCEPT ![w] = Gone]
  /\ UNCHANGED <<txn, dbi, cur, nEnv, nTxn, nCur, curCloses>>
  /\ UNCHANGED bind
  /\ UNCHANGED data

\* The env methods that make one checked engine call on handle() and
\* change nothing in the object: r is the procedural wrapper's result.
EnvChecked(op, w, arg, r) ==
  /\ last' = Outcome(op, w, env[w].handle, arg, <<r.call>>, r.err,
                     Returns(r.err, "void"), NULL)
  /\ UNCHANGED <<env, txn, dbi, cur, nEnv, nTxn, nCur, envCloses,
                 curCloses>>
  /\ UNCHANGED bind
  /\ UNCHANGED data

\* env::sync(force)
EnvSync(w) ==
  /\ env[w].alive
  /\ \E rc \in EngineStatus({env[w].handle}) :
       EnvChecked("env::sync", w, 0, env_sync(env[w].handle, rc))

\* env::open(path, flags, mode)
EnvOpen(w) ==
  /\ env[w].alive
  /\ \E rc \in EngineStatus({env[w].handle}) :
       EnvChecked("env::open", w, 0, env_open(env[w].handle, rc))

\* env::set_flags(flags, onoff)
EnvSetFlags(w) ==
  /\ env[w].alive
  /\ \E rc \in EngineStatus({env[w].handle}) :
       EnvChecked("env::set_flags", w, 0,
                  env_set_flags(env[w].handle, rc))

\* env::set_map_size(size)
EnvSetMapSize(w) ==
  /\ env[w].alive
  /\ \E rc \in EngineStatus({env[w].handle}) :
       EnvChecked("env::set_map_size", w, 0,
                  env_set_map_size(env[w].handle, rc))

\* env::set_max_readers(count)
EnvSetMaxReaders(w) ==
  /\ env[w].alive
  /\ \E rc \in EngineStatus({env[w].handle}) :
       EnvChecked("env::set_max_readers", w, 0,
                  env_set_max_readers(env[w].handle, rc))

\* env::set_max_dbs(count)
EnvSetMaxDbs(w) ==
  /\ env[w].alive
  /\ \E rc \in EngineStatus({env[w].handle}) :
       EnvChecked("env::set_max_dbs", w, 0,
                  env_set_max_dbs(env[w].handle, rc))

(***************************************************************************)
(* class lmdb::txn                                                         *)
(***************************************************************************)
\* The MDB_txn* a caller can pass as parent: none, or another txn object's.
Parents(w) == {NULL} \cup {txn[p].handle : p \in {q \in TxnW \ {w} : txn[q].alive}}

\* txn::begin(env, parent, flags), env being the handle of env object e.
TxnBegin(w, e, parent) ==
  /\ ~txn[w].alive
  /\ env[e].alive
  /\ nTxn < MaxHandles
  /\ \E rc \in EngineStatus({env[e].handle}) :
       LET h == nTxn + 1
           r == txn_begin(env[e].handle, rc)
       IN IF r.err # NoErr
          THEN /\ last' = Outcome("txn::begin", w, NULL, parent, <<r.call>>,
                                  r.err, "none", NULL)
               /\ UNCHANGED <<txn, nTxn>>
          ELSE /\ last' = Outcome("txn::begin", w, NULL, parent, <<r.call>>,
                                  NoErr, "object", h)
               /\ txn' = [txn EXCEPT ![w] = Holding(h)]
               /\ nTxn' = h
  /\ UNCHANGED <<env, dbi, cur, nEnv, nCur, envCloses, curCloses>>
  /\ txnEnv' = IF txn'[w].alive
               THEN Bind(txnEnv, w, env[e].handle) ELSE txnEnv
  /\ UNCHANGED <<track, dbiTxn, curTxn>>
  /\ view' = IF track /\ txn'[w].alive THEN committed ELSE view
  /\ UNCHANGED <<committed, scan>>

\* ~txn that aborts a transaction still in progress.
TxnDtorAbort(w) ==
  /\ txn[w].alive
  /\ LET h == txn[w].handle
         r == txn_abort(h)
     IN last' = Outcome("txn::~txn", w, h, 0,
                        IF h # NULL THEN <<r.call>> ELSE <<>>, NoErr, "void",
                        NULL)
  /\ txn' = [txn EXCEPT ![w] = Gone]
  /\ UNCHANGED <<env, dbi, cur, nEnv, nTxn, nCur, envCloses, curCloses>>
  /\ txnEnv' = [txnEnv EXCEPT ![w] = NULL]
  /\ dbiTxn' = EndTxn(dbiTxn, txn[w].handle)
  /\ curTxn' = EndTxn(curTxn, txn[w].handle)
  /\ UNCHANGED track
  /\ view' = NoView
  /\ UNCHANGED <<committed, scan>>

\* txn::~txn(): the handle nulled (no engine call), and the object is gone.
TxnDtor(w) ==
  /\ txn[w].alive
  /\ last' = Outcome("txn::~txn", w, txn[w].handle, 0, <<>>, NoErr, "void",
                     NULL)
  /\ txn' = [txn EXCEPT ![w] = Gone]
  /\ UNCHANGED <<env, dbi, cur, nEnv, nTxn, nCur, envCloses,
                 curCloses>>
  /\ txnEnv' = [txnEnv EXCEPT ![w] = NULL]
  /\ UNCHANGED <<track, dbiTxn, curTxn>>
  /\ view' = NoView
  /\ UNCHANGED <<committed, scan>>

\* txn::env(): what mdb_txn_env(handle()) answers: NULL for a null handle,
\* else an MDB_env* the engine has handed out.
TxnEnv(w) ==
  /\ txn[w].alive
  /\ \E e \in IF txn[w].handle = NULL THEN {NULL} ELSE 1..nEnv :
       LET h == txn[w].handle
           r == txn_env(h)
       IN last' = Outcome("txn::env", w, h, 0, <<r.call>>, r.err, "handle", e)
  /\ UNCHANGED <<env, txn, dbi, cur, nEnv, nTxn, nCur, envCloses,
                 curCloses>>
  /\ UNCHANGED bind
  /\ UNCHANGED data

\* A slip: the null-out after the commit forgotten.
TxnCommitKeep(w) ==
  /\ txn[w].alive
  /\ \E rc \in EngineStatus({txn[w].handle}) :
       LET h == txn[w].handle
           r == txn_commit(h, rc)
       IN /\ last' = Outcome("txn::commit", w, h, 0, <<r.call>>, r.err,
                             Returns(r.err, "void"), NULL)
          /\ UNCHANGED txn
  /\ UNCHANGED <<env, dbi, cur, nEnv, nTxn, nCur, envCloses,
                 curCloses>>
  /\ txnEnv' = IF txn'[w].handle = NULL
               THEN [txnEnv EXCEPT ![w] = NULL] ELSE txnEnv
  /\ dbiTxn' = EndTxn(dbiTxn, txn[w].handle)
  /\ curTxn' = EndTxn(curTxn, txn[w].handle)
  /\ UNCHANGED track
  /\ committed' = IF last'.err = NoErr /\ view # NoView
                  THEN view ELSE committed
  /\ view' = NoView
  /\ UNCHANGED scan

\* txn::commit(): txn_commit(_handle), then (when it did not throw) the
\* handle nulled.
TxnCommit(w) ==
  /\ txn[w].alive
  /\ \E rc \in EngineStatus({txn[w].handle}) :
       LET h == txn[w].handle
           r == txn_commit(h, rc)
       IN /\ last' = Outcome("txn::commit", w, h, 0, <<r.call>>, r.err,
                             Returns(r.err, "void"), NULL)
          /\ txn' = IF r.err # NoErr THEN txn
                    ELSE [txn EXCEPT ![w].handle = NULL]
  /\ UNCHANGED <<env, dbi, cur, nEnv, nTxn, nCur, envCloses,
                 curCloses>>
  /\ txnEnv' = IF txn'[w].handle = NULL
               THEN [txnEnv EXCEPT ![w] = NULL] ELSE txnEnv
  /\ dbiTxn' = EndTxn(dbiTxn, txn[w].handle)
  /\ curTxn' = EndTxn(curTxn, txn[w].handle)
  /\ UNCHANGED track
  /\ committed' = IF last'.err = NoErr /\ view # NoView
                  THEN view ELSE committed
  /\ view' = NoView
  /\ UNCHANGED scan

\* A slip: the null-out after the abort forgotten.
TxnAbortKeep(w) ==
  /\ txn[w].alive
  /\ LET h == txn[w].handle
         r == txn_abort(h)
     IN last' = Outcome("txn::abort", w, h, 0, <<r.call>>, r.err,
                        Returns(r.err, "void"), NULL)
  /\ UNCHANGED <<env, txn, dbi, cur, nEnv, nTxn, nCur, envCloses,
                 curCloses>>
  /\ txnEnv' = IF txn'[w].handle = NULL
               THEN [txnEnv EXCEPT ![w] = NULL] ELSE txnEnv
  /\ dbiTxn' = EndTxn(dbiTxn, txn[w].handle)
  /\ curTxn' = EndTxn(curTxn, txn[w].handle)
  /\ UNCHANGED track
  /\ view' = NoView
  /\ UNCHANGED <<committed, scan>>

\* txn::abort(): txn_abort(_handle), then the handle nulled.
TxnAbort(w) ==
  /\ txn[w].alive
  /\ LET h == txn[w].handle
         r == txn_abort(h)
     IN last' = Outcome("txn::abort", w, h, 0, <<r.call>>, r.err,
                        Returns(r.err, "void"), NULL)
  /\ txn' = [txn EXCEPT ![w].handle = NULL]
  /\ UNCHANGED <<env, dbi, cur, nEnv, nTxn, nCur, envCloses,
                 curCloses>>
  /\ txnEnv' = IF txn'[w].handle = NULL
               THEN [txnEnv EXCEPT ![w] = NULL] ELSE txnEnv
  /\ dbiTxn' = EndTxn(dbiTxn, txn[w].handle)
  /\ curTxn' = EndTxn(curTxn, txn[w].handle)
  /\ UNCHANGED track
  /\ view' = NoView
  /\ UNCHANGED <<committed, scan>>

\* txn::reset that gives the handle up, as commit() and abort() do.
TxnResetNull(w) ==
  /\ txn[w].alive
  /\ LET h == txn[w].handle
         r == txn_reset(h)
     IN last' = Outcome("txn::reset", w, h, 0, <<r.call>>, r.err,
                        Returns(r.err, "void"), NULL)
  /\ txn' = [txn EXCEPT ![w].handle = NULL]
  /\ UNCHANGED <<env, dbi, cur, nEnv, nTxn, nCur, envCloses, curCloses>>
  /\ UNCHANGED bind
  /\ UNCHANGED data

\* txn::reset(): txn_reset(_handle).
TxnReset(w) ==
  /\ txn[w].alive
  /\ LET h == txn[w].handle
         r == txn_reset(h)
     IN last' = Outcome("txn::reset", w, h, 0, <<r.call>>, r.err,
                        Returns(r.err, "void"), NULL)
  /\ UNCHANGED <<env, txn, dbi, cur, nEnv, nTxn, nCur, envCloses,
                 curCloses>>
  /\ UNCHANGED bind
  /\ UNCHANGED data

\* txn::renew(): txn_renew(_handle).
TxnRenew(w) ==
  /\ txn[w].alive
  /\ \E rc \in EngineStatus({txn[w].handle}) :
       LET h == txn[w].handle
           r == txn_renew(h, rc)
       IN last' = Outcome("txn::renew", w, h, 0, <<r.call>>, r.err,
                          Returns(r.err, "void"), NULL)
  /\ UNCHANGED <<env, txn, dbi, cur, nEnv, nTxn, nCur, envCloses,
                 curCloses>>
  /\ UNCHANGED bind
  /\ UNCHANGED data

(***************************************************************************)
(* class lmdb::dbi                                                         *)
(***************************************************************************)
\* dbi::open(txn, name, flags), txn being the handle of txn object t; the
\* engine chooses the identifier.
DbiOpen(w, t, id) ==
  /\ ~dbi[w].alive
  /\ txn[t].alive
  /\ \E rc \in EngineStatus({txn[t].handle}) :
       LET r == dbi_open(txn[t].handle, rc)
       IN IF r.err # NoErr
          THEN /\ last' = Outcome("dbi::open", w, NULL, 0, <<r.call>>, r.err,
                                  "none", NULL)
               /\ UNCHANGED dbi
          ELSE /\ last' = Outcome("dbi::open", w, NULL, 0, <<r.call>>, NoErr,
                                  "object", id)
               /\ dbi' = [dbi EXCEPT ![w] = Holding(id)]
  /\ UNCHANGED <<env, txn, cur, nEnv, nTxn, nCur, envCloses,
                 curCloses>>
  /\ dbiTxn' = IF dbi'[w].alive
               THEN Bind(dbiTxn, w, txn[t].handle) ELSE dbiTxn
  /\ UNCHANGED <<track, txnEnv, curTxn>>
  /\ UNCHANGED data

\* ~dbi that closes the database handle in the engine.
DbiDtorClosing(w) ==
  /\ dbi[w].alive
  /\ last' = Outcome("dbi::~dbi", w, dbi[w].handle, 0,
                     <<[VoidCall("mdb_dbi_close", NULL)
                          EXCEPT !.dbi = dbi[w].handle]>>,
                     NoErr, "void", NULL)
  /\ dbi' = [dbi EXCEPT ![w] = Gone]
  /\ UNCHANGED <<env, txn, cur, nEnv, nTxn, nCur, envCloses, curCloses>>
  /\ dbiTxn' = [dbiTxn EXCEPT ![w] = NULL]
  /\ UNCHANGED <<track, txnEnv, curTxn>>
  /\ UNCHANGED data

\* dbi::~dbi(): no engine call, and the object is gone.
DbiDtor(w) ==
  /\ dbi[w].alive
  /\ last' = Outcome("dbi::~dbi", w, dbi[w].handle, 0, <<>>, NoErr, "void",
                     NULL)
  /\ dbi' = [dbi EXCEPT ![w] = Gone]
  /\ UNCHANGED <<env, txn, cur, nEnv, nTxn, nCur, envCloses,
                 curCloses>>
  /\ dbiTxn' = [dbiTxn EXCEPT ![w] = NULL]
  /\ UNCHANGED <<track, txnEnv, curTxn>>
  /\ UNCHANGED data

\* dbi::stat(txn)
DbiStat(w, t) ==
  /\ dbi[w].alive
  /\ txn[t].alive
  /\ \E rc \in EngineStatus({txn[t].handle}) :
       LET r == dbi_stat(txn[t].handle, dbi[w].handle, rc)
       IN last' = [Outcome("dbi::stat", w, dbi[w].handle, 0, <<r.call>>,
                           r.err, Returns(r.err, "object"), NULL)
                     EXCEPT !.val = IF r.err = NoErr
                                    THEN MdbStat(Seen) ELSE <<>>]
  /\ UNCHANGED <<env, txn, dbi, cur, nEnv, nTxn, nCur, envCloses,
                 curCloses>>
  /\ UNCHANGED bind
  /\ UNCHANGED data

\* dbi::flags(txn)
DbiFlags(w, t) ==
  /\ dbi[w].alive
  /\ txn[t].alive
  /\ \E rc \in EngineStatus({txn[t].handle}) :
       LET r == dbi_flags(txn[t].handle, dbi[w].handle, rc)
       IN last' = Outcome("dbi::flags", w, dbi[w].handle, 0, <<r.call>>, r.err,
                          Returns(r.err, "object"), NULL)
  /\ UNCHANGED <<env, txn, dbi, cur, nEnv, nTxn, nCur, envCloses,
                 curCloses>>
  /\ UNCHANGED bind
  /\ UNCHANGED data

\* dbi::get(txn, k): the result of dbi_get.
DbiGet(w, t) ==
  /\ dbi[w].alive
  /\ txn[t].alive
  /\ \E rc \in EngineStatus({txn[t].handle}) :
       LET r == dbi_get(txn[t].handle, dbi[w].handle, rc)
       IN last' = Outcome("dbi::get", w, dbi[w].handle, 0, <<r.call>>, r.err,
                          Returns(r.err, Bool(r.ret)), NULL)
  /\ UNCHANGED <<env, txn, dbi, cur, nEnv, nTxn, nCur, envCloses,
                 curCloses>>
  /\ UNCHANGED bind
  /\ UNCHANGED data

(***************************************************************************)
(* class lmdb::cursor                                                      *)
(***************************************************************************)
\* cursor::open(txn, dbi), the handles of txn object t and dbi object d.
CursorOpen(w, t, d) ==
  /\ ~cur[w].alive
  /\ txn[t].alive
  /\ dbi[d].alive
  /\ nCur < MaxHandles
  /\ \E rc \in EngineStatus({txn[t].handle}) :
       LET h == nCur + 1
           r == cursor_open(txn[t].handle, dbi[d].handle, rc)
       IN IF r.err # NoErr
          THEN /\ last' = Outcome("cursor::open", w, NULL, 0, <<r.call>>,
                                  r.err, "none", NULL)
               /\ UNCHANGED <<cur, nCur>>
          ELSE /\ last' = Outcome("cursor::open", w, NULL, 0, <<r.call>>,
                                  NoErr, "object", h)
               /\ cur' = [cur EXCEPT ![w] = Holding(h)]
               /\ nCur' = h
  /\ UNCHANGED <<env, txn, dbi, nEnv, nTxn, envCloses, curCloses>>
  /\ curTxn' = IF cur'[w].alive
               THEN Bind(curTxn, w, txn[t].handle) ELSE curTxn
  /\ UNCHANGED <<track, txnEnv, dbiTxn>>
  /\ scan' = [scan EXCEPT ![w] = NoScan]
  /\ UNCHANGED <<committed, view>>

\* cursor::close(): the engine's close on a non-null handle, then the
\* handle nulled; nothing on a null handle.
CursorClose(w) ==
  /\ cur[w].alive
  /\ LET h == cur[w].handle
         r == cursor_close(h)
     IN IF h # NULL
        THEN /\ last' = Outcome("cursor::close", w, h, 0, <<r.call>>, r.err,
                                Returns(r.err, "void"), NULL)
             /\ curCloses' = [curCloses EXCEPT ![h] = @ + 1]
             /\ cur' = [cur EXCEPT ![w].handle = NULL]
        ELSE /\ last' = Outcome("cursor::close", w, h, 0, <<>>, NoErr, "void",
                                NULL)
             /\ UNCHANGED <<cur, curCloses>>
  /\ UNCHANGED <<env, txn, dbi, nEnv, nTxn, nCur, envCloses>>
  /\ curTxn' = [curTxn EXCEPT ![w] = NULL]
  /\ UNCHANGED <<track, txnEnv, dbiTxn>>
  /\ scan' = [scan EXCEPT ![w] = NoScan]
  /\ UNCHANGED <<committed, view>>

\* cursor::~cursor(): try { close(); } catch (...) {}, and the object is
\* gone.
CursorDtor(w) ==
  /\ cur[w].alive
  /\ LET h == cur[w].handle
         r == cursor_close(h)
     IN IF h # NULL
        THEN /\ last' = Outcome("cursor::~cursor", w, h, 0, <<r.call>>, NoErr,
                                "void", NULL)
             /\ curCloses' = [curCloses EXCEPT ![h] = @ + 1]
        ELSE /\ last' = Outcome("cursor::~cursor", w, h, 0, <<>>, NoErr,
                                "void", NULL)
             /\ UNCHANGED curCloses
  /\ cur' = [cur EXCEPT ![w] = Gone]
  /\ UNCHANGED <<env, txn, dbi, nEnv, nTxn, nCur, envCloses>>
  /\ curTxn' = [curTxn EXCEPT ![w] = NULL]
  /\ UNCHANGED <<track, txnEnv, dbiTxn>>
  /\ scan' = [scan EXCEPT ![w] = NoScan]
  /\ UNCHANGED <<committed, view>>

\* The cursor operations that make one engine call on handle() and change
\* nothing in the object: r is the procedural wrapper's result.
CursorChecked(op, w, r, ret) ==
  /\ last' = Outcome(op, w, cur[w].handle, 0, <<r.call>>, r.err,
                     Returns(r.err, ret), NULL)
  /\ UNCHANGED <<env, txn, dbi, cur, nEnv, nTxn, nCur, envCloses,
                 curCloses>>
  /\ UNCHANGED <<track, txnEnv, dbiTxn>>
  /\ UNCHANGED data

\* cursor::renew(txn), txn being the handle of txn object t.
CursorRenew(w, t) ==
  /\ cur[w].alive
  /\ txn[t].alive
  /\ \E rc \in EngineStatus({txn[t].handle, cur[w].handle}) :
       /\ CursorChecked("cursor::renew", w, cursor_renew(cur[w].handle, rc),
                        "void")
       /\ curTxn' = IF rc = MDB_SUCCESS
                    THEN Bind(curTxn, w, txn[t].handle) ELSE curTxn

\* cursor::get(key, data, op), and cursor::get(key, op) which forwards to it.
CursorGet(w) ==
  /\ cur[w].alive
  /\ \E rc \in EngineStatus({cur[w].handle}) :
       CursorChecked("cursor::get", w, cursor_get(cur[w].handle, rc),
                     Bool(cursor_get(cur[w].handle, rc).ret))
  /\ UNCHANGED curTxn

\* cursor::find(k): get(&key, &val, MDB_SET).
CursorFind(w) ==
  /\ cur[w].alive
  /\ \E rc \in EngineStatus({cur[w].handle}) :
       CursorChecked("cursor::find", w, cursor_get(cur[w].handle, rc),
                     Bool(cursor_get(cur[w].handle, rc).ret))
  /\ UNCHANGED curTxn

\* lmdb::cursor_put(cursor, key, data, flags) on the cursor object's handle.
CursorPut(w) ==
  /\ cur[w].alive
  /\ \E rc \in EngineStatus({cur[w].handle}) :
       CursorChecked("cursor_put", w, cursor_put(cur[w].handle, rc), "void")
  /\ UNCHANGED curTxn

\* lmdb::cursor_del(cursor, flags) on the cursor object's handle.
CursorDel(w) ==
  /\ cur[w].alive
  /\ \E rc \in EngineStatus({cur[w].handle}) :
       CursorChecked("cursor_del", w, cursor_del(cur[w].handle, rc), "void")
  /\ UNCHANGED curTxn

\* lmdb::cursor_count(cursor, count) on the cursor object's handle.
CursorCount(w) ==
  /\ cur[w].alive
  /\ \E rc \in EngineStatus({cur[w].handle}) :
       CursorChecked("cursor_count", w, cursor_count(cur[w].handle, rc),
                     "void")
  /\ UNCHANGED curTxn

\* ---------------------------------------------------------------------
\* Operations on the contents of the store.  Here the engine's answer
\* follows from its store (or is an error status) and the store follows
\* the writes; these steps are taken inside the active transaction.

\* The handle of the active transaction's wrapper, if any.
ActiveTxn == {txn[t].handle : t \in {x \in TxnW : txn[x].alive}} \ {NULL}

\* Cursor object w holds a cursor of the active transaction.
CursorActive(w) ==
  /\ cur[w].alive
  /\ cur[w].handle # NULL
  /\ view # NoView
  /\ curTxn[w] \in ActiveTxn

\* The error status the engine answers a store operation with: one stands
\* for all, raise makes the same of each.
StoreFaults == {MDB_CORRUPTED}

\* The statuses the engine can answer a lookup with: found or not found as
\* the store says, or an error.
LookupStatus(found) ==
  StoreFaults \cup {IF found THEN MDB_SUCCESS ELSE MDB_NOTFOUND}

\* The least of a non-empty set of keys.
Least(S) == CHOOSE k \in S : \A j \in S : k <= j

\* The key mdb_cursor_get moves to in store s from cursor state sc under
\* operation op (MDB_SET with key k); 0 if there is none.  MDB_NEXT on a
\* cursor that was never positioned acts as MDB_FIRST.
CursorTarget(s, sc, op, k) ==
  LET after == IF op = "MDB_NEXT" /\ sc.keys # <<>>
               THEN {j \in Present(s) : j > sc.keys[Len(sc.keys)]}
               ELSE Present(s)
  IN IF op = "MDB_SET"
     THEN IF k \in Present(s) THEN k ELSE 0
     ELSE IF after = {} THEN 0 ELSE Least(after)

\* The cursor state after mdb_cursor_get answered rc and moved to key j.
CursorMoved(sc, op, rc, j) ==
  IF rc = MDB_SUCCESS
  THEN IF op = "MDB_NEXT" /\ sc.keys # <<>>
       THEN [sc EXCEPT !.keys = Append(@, j)]
       ELSE [from |-> IF op = "MDB_SET" THEN "find" ELSE "first",
             keys |-> <<j>>]
  ELSE IF rc = MDB_NOTFOUND /\ op # "MDB_NEXT" THEN NoScan
  ELSE sc

\* The sizeof(V) = n bytes `*reinterpret_cast<const V*>(val.mv_data)` reads
\* where the stored bytes are followed in memory by byte b.
ReadAs(stored, n, b) ==
  [i \in 1..n |-> IF i <= Len(stored) THEN stored[i] ELSE b]

\* lmdb::cursor_put(cursor, key, data) with key k and data v.
CursorPutKV(w, k, v) ==
  /\ CursorActive(w)
  /\ \E rc \in StoreFaults \cup {MDB_SUCCESS} :
       LET h == cur[w].handle
           r == cursor_put(h, rc)
       IN /\ last' = [Outcome("cursor_put", w, h, k, <<r.call>>, r.err,
                              Returns(r.err, "void"), NULL)
                        EXCEPT !.val = v]
          /\ view' = IF r.err = NoErr THEN [view EXCEPT ![k] = v] ELSE view
          /\ scan' = IF r.err = NoErr
                     THEN [scan EXCEPT ![w] = [from |-> "put", keys |-> <<k>>]]
                     ELSE scan
  /\ UNCHANGED <<env, txn, dbi, cur, nEnv, nTxn, nCur, envCloses,
                 curCloses>>
  /\ UNCHANGED bind
  /\ UNCHANGED committed

\* dbi::get(txn, k, v) that assigns v whatever lmdb::dbi_get answered.
DbiGetValueAlways(w, t, k, n) ==
  /\ dbi[w].alive
  /\ txn[t].alive
  /\ txn[t].handle # NULL
  /\ view # NoView
  /\ \E rc \in LookupStatus(k \in Present(view)), b \in Bytes :
       LET r == dbi_get(txn[t].handle, dbi[w].handle, rc)
       IN last' = [Outcome("dbi::get(k, v)", w, dbi[w].handle, k, <<r.call>>,
                           r.err, Returns(r.err, Bool(r.ret)), NULL)
                     EXCEPT !.val = IF r.err = NoErr
                                    THEN ReadAs(view[k], n, b) ELSE <<>>,
                            !.read = IF r.err = NoErr THEN n ELSE 0]
  /\ UNCHANGED <<env, txn, dbi, cur, nEnv, nTxn, nCur, envCloses,
                 curCloses>>
  /\ UNCHANGED bind
  /\ UNCHANGED data

\* dbi::get(txn, k, v) instantiated with a value type of n bytes.
DbiGetValue(w, t, k, n) ==
  /\ dbi[w].alive
  /\ txn[t].alive
  /\ txn[t].handle # NULL
  /\ view # NoView
  /\ \E rc \in LookupStatus(k \in Present(view)), b \in Bytes :
       LET r == dbi_get(txn[t].handle, dbi[w].handle, rc)
       IN last' = [Outcome("dbi::get(k, v)", w, dbi[w].handle, k, <<r.call>>,
                           r.err, Returns(r.err, Bool(r.ret)), NULL)
                     EXCEPT !.val = IF r.ret THEN ReadAs(view[k], n, b)
                                    ELSE <<>>,
                            !.read = IF r.ret THEN n ELSE 0]
  /\ UNCHANGED <<env, txn, dbi, cur, nEnv, nTxn, nCur, envCloses,
                 curCloses>>
  /\ UNCHANGED bind
  /\ UNCHANGED data

\* dbi::size(txn) that returns another field of the MDB_stat.
DbiSizeDepth(w, t) ==
  /\ dbi[w].alive
  /\ txn[t].alive
  /\ \E rc \in EngineStatus({txn[t].handle}) :
       LET r == dbi_stat(txn[t].handle, dbi[w].handle, rc)
       IN last' = [Outcome("dbi::size", w, dbi[w].handle, 0, <<r.call>>,
                           r.err, Returns(r.err, "count"), NULL)
                     EXCEPT !.val = IF r.err = NoErr
                                    THEN MdbStat(Seen).ms_depth ELSE <<>>]
  /\ UNCHANGED <<env, txn, dbi, cur, nEnv, nTxn, nCur, envCloses,
                 curCloses>>
  /\ UNCHANGED bind
  /\ UNCHANGED data

\* dbi::size(txn): stat(txn).ms_entries.
DbiSize(w, t) ==
  /\ dbi[w].alive
  /\ txn[t].alive
  /\ \E rc \in EngineStatus({txn[t].handle}) :
       LET r == dbi_stat(txn[t].handle, dbi[w].handle, rc)
       IN last' = [Outcome("dbi::size", w, dbi[w].handle, 0, <<r.call>>,
                           r.err, Returns(r.err, "count"), NULL)
                     EXCEPT !.val = IF r.err = NoErr
                                    THEN MdbStat(Seen).ms_entries ELSE <<>>]
  /\ UNCHANGED <<env, txn, dbi, cur, nEnv, nTxn, nCur, envCloses,
                 curCloses>>
  /\ UNCHANGED bind
  /\ UNCHANGED data

\* cursor::get(key, data, op) with op MDB_FIRST or MDB_NEXT, and
\* cursor::find(k), which is get(&key, &val, MDB_SET) with key k.
CursorMove(name, w, op, k) ==
  /\ CursorActive(w)
  /\ LET j == CursorTarget(view, scan[w], op, k)
     IN \E rc \in LookupStatus(j # 0) :
          LET h == cur[w].handle
              r == cursor_get(h, rc)
          IN /\ last' = [Outcome(name, w, h, k, <<r.call>>, r.err,
                                 Returns(r.err, Bool(r.ret)), NULL)
                           EXCEPT !.val = [op |-> op,
                                           key |-> IF r.ret THEN j ELSE 0]]
             /\ scan' = [scan EXCEPT ![w] = CursorMoved(@, op, rc, j)]
  /\ UNCHANGED <<env, txn, dbi, cur, nEnv, nTxn, nCur, envCloses,
                 curCloses>>
  /\ UNCHANGED bind
  /\ UNCHANGED <<committed, view>>

CursorGetOp(w, op) == CursorMove("cursor::get", w, op, 0)

\* cursor::find that passes MDB_FIRST in place of MDB_SET.
CursorFindFirst(w, k) == CursorMove("cursor::find", w, "MDB_FIRST", k)

CursorFindKey(w, k) == CursorMove("cursor::find", w, "MDB_SET", k)

(***************************************************************************)
(* The program: any operation, on any object, at any time.                 *)
(***************************************************************************)
Next ==
  \/ \E o \in Origins, rc \in StatusCodes : ErrorRaise(o, rc)
  \/ \E w \in EnvW, f \in FlagValues : EnvCreate(w, f)
  \/ \E w \in EnvW : EnvClose(w)
  \/ \E w \in EnvW : EnvDtor(w)
  \/ \E w \in EnvW : EnvSync(w)
  \/ \E w \in EnvW : EnvOpen(w)
  \/ \E w \in EnvW : EnvSetFlags(w)
  \/ \E w \in EnvW : EnvSetMapSize(w)
  \/ \E w \in EnvW : EnvSetMaxReaders(w)
  \/ \E w \in EnvW : EnvSetMaxDbs(w)
  \/ \E w \in TxnW, e \in EnvW : \E p \in Parents(w) : TxnBegin(w, e, p)
  \/ \E w \in TxnW : TxnDtor(w)
  \/ \E w \in TxnW : TxnEnv(w)
  \/ \E w \in TxnW : TxnCommit(w)
  \/ \E w \in TxnW : TxnAbort(w)
  \/ \E w \in TxnW : TxnReset(w)
  \/ \E w \in TxnW : TxnRenew(w)
  \/ \E w \in DbiW, t \in TxnW, id \in DbiIds : DbiOpen(w, t, id)
  \/ \E w \in DbiW : DbiDtor(w)
  \/ \E w \in DbiW, t \in TxnW : DbiStat(w, t)
  \/ \E w \in DbiW, t \in TxnW : DbiFlags(w, t)
  \/ \E w \in DbiW, t \in TxnW : DbiGet(w, t)
  \/ \E w \in DbiW, t \in TxnW : DbiSize(w, t)
  \/ \E w \in CurW, t \in TxnW, d \in DbiW : CursorOpen(w, t, d)
  \/ \E w \in CurW : CursorClose(w)
  \/ \E w \in CurW : CursorDtor(w)
  \/ \E w \in CurW, t \in TxnW : CursorRenew(w, t)
  \/ \E w \in CurW : CursorGet(w)
  \/ \E w \in CurW : CursorFind(w)
  \/ \E w \in CurW : CursorPut(w)
  \/ \E w \in CurW : CursorDel(w)
  \/ \E w \in CurW : CursorCount(w)

Spec == Init /\ [][Next]_vars

\* The operations that make and end environments, transactions and
\* cursors, in behaviours that record what each handle is bound to.
NextBind ==
  \/ \E w \in EnvW, f \in FlagValues : EnvCreate(w, f)
  \/ \E w \in EnvW : EnvClose(w)
  \/ \E w \in EnvW : EnvDtor(w)
  \/ \E w \in TxnW, e \in EnvW : \E p \in Parents(w) : TxnBegin(w, e, p)
  \/ \E w \in TxnW : TxnDtor(w)
  \/ \E w \in TxnW : TxnCommit(w)
  \/ \E w \in TxnW : TxnAbort(w)
  \/ \E w \in DbiW, t \in TxnW, id \in DbiIds : DbiOpen(w, t, id)
  \/ \E w \in CurW, t \in TxnW, d \in DbiW : CursorOpen(w, t, d)
  \/ \E w \in CurW : CursorClose(w)
  \/ \E w \in CurW : CursorDtor(w)
  \/ \E w \in CurW, t \in TxnW : CursorRenew(w, t)

SpecBind == InitBind /\ [][NextBind]_vars

\* The operations of a database handle and of the transactions it is used
\* in, in behaviours that record what each handle is bound to.
NextDbi ==
  \/ \E w \in EnvW, f \in FlagValues : EnvCreate(w, f)
  \/ \E w \in TxnW, e \in EnvW : \E p \in Parents(w) : TxnBegin(w, e, p)
  \/ \E w \in TxnW : TxnDtor(w)
  \/ \E w \in TxnW : TxnCommit(w)
  \/ \E w \in TxnW : TxnAbort(w)
  \/ \E w \in DbiW, t \in TxnW, id \in DbiIds : DbiOpen(w, t, id)
  \/ \E w \in DbiW : DbiDtor(w)
  \/ \E w \in DbiW, t \in TxnW : DbiStat(w, t)
  \/ \E w \in DbiW, t \in TxnW : DbiFlags(w, t)
  \/ \E w \in DbiW, t \in TxnW : DbiGet(w, t)
  \/ \E w \in DbiW, t \in TxnW : DbiSize(w, t)

SpecDbi == InitBind /\ [][NextDbi]_vars

\* Writing the store through a cursor and reading it through the database
\* handle, in behaviours that keep the engine's store.
NextData ==
  \/ \E w \in EnvW, f \in FlagValues : EnvCreate(w, f)
  \/ \E w \in TxnW, e \in EnvW : \E p \in Parents(w) : TxnBegin(w, e, p)
  \/ \E w \in TxnW : TxnCommit(w)
  \/ \E w \in TxnW : TxnAbort(w)
  \/ \E w \in TxnW : TxnDtor(w)
  \/ \E w \in DbiW, t \in TxnW, id \in DbiIds : DbiOpen(w, t, id)
  \/ \E w \in DbiW, t \in TxnW : DbiStat(w, t)
  \/ \E w \in DbiW, t \in TxnW : DbiSize(w, t)
  \/ \E w \in DbiW, t \in TxnW, k \in Keys, n \in ValueSizes :
       DbiGetValue(w, t, k, n)
  \/ \E w \in CurW, t \in TxnW, d \in DbiW : CursorOpen(w, t, d)
  \/ \E w \in CurW, k \in Keys, v \in Vals : CursorPutKV(w, k, v)

SpecData == InitBind /\ [][NextData]_vars

\* Writing the store through a cursor and walking it with that cursor, in
\* behaviours that keep the engine's store.
NextCursor ==
  \/ \E w \in EnvW, f \in FlagValues : EnvCreate(w, f)
  \/ \E w \in TxnW, e \in EnvW : \E p \in Parents(w) : TxnBegin(w, e, p)
  \/ \E w \in DbiW, t \in TxnW, id \in DbiIds : DbiOpen(w, t, id)
  \/ \E w \in CurW, t \in TxnW, d \in DbiW : CursorOpen(w, t, d)
  \/ \E w \in CurW, k \in Keys, v \in Vals : CursorPutKV(w, k, v)
  \/ \E w \in CurW, op \in {"MDB_FIRST", "MDB_NEXT"} : CursorGetOp(w, op)
  \/ \E w \in CurW, k \in Keys : CursorFindKey(w, k)

SpecCursor == InitBind /\ [][NextCursor]_vars

(***************************************************************************)
(* Copies.  env, txn and cursor declare a constructor from a handle and a   *)
(* destructor, and neither delete nor define a copy or move operation: the *)
(* compiler supplies a copy constructor and a copy assignment that copy    *)
(* _handle member by member.  A second object of each class makes them     *)
(* observable.                                                             *)
(***************************************************************************)
EnvObjs == EnvW \cup {"e2"}
TxnObjs == TxnW \cup {"t2"}
CurObjs == CurW \cup {"c2"}

\* The object w of the class with objects f can still be closed within the
\* bound: cnt counts the engine's closes of each handle.
Closable(f, cnt, w) ==
  IF f[w].handle = NULL THEN TRUE ELSE cnt[f[w].handle] < MaxCloses

\* The state after construction, with room for two objects of each class.
InitCopy ==
  /\ env = [w \in EnvObjs |-> Gone]
  /\ txn = [w \in TxnObjs |-> Gone]
  /\ dbi = [w \in DbiW |-> Gone]
  /\ cur = [w \in CurObjs |-> Gone]
  /\ nEnv = 0 /\ nTxn = 0 /\ nCur = 0
  /\ envCloses = [h \in Handles |-> 0]
  /\ curCloses = [h \in Handles |-> 0]
  /\ track = FALSE
  /\ txnEnv = [w \in TxnObjs |-> NULL]
  /\ dbiTxn = [w \in DbiW |-> NULL]
  /\ curTxn = [w \in CurObjs |-> NULL]
  /\ committed = EmptyStore
  /\ view = NoView
  /\ scan = [w \in CurObjs |-> NoScan]
  /\ last = Outcome("start", "", NULL, 0, <<>>, NoErr, "void", NULL)

\* env::env(const env&), implicit: a new object w holding s's handle.
EnvCopy(w, s) ==
  /\ w # s
  /\ ~env[w].alive
  /\ env[s].alive
  /\ last' = Outcome("env::env(const env&)", w, NULL, 0, <<>>, NoErr,
                     "object", env[s].handle)
  /\ env' = [env EXCEPT ![w] = [alive |-> TRUE, handle |-> env[s].handle]]
  /\ UNCHANGED <<txn, dbi, cur, nEnv, nTxn, nCur, envCloses, curCloses>>
  /\ UNCHANGED bind
  /\ UNCHANGED data

\* env::operator=(const env&), implicit: w's handle overwritten by s's;
\* no engine call, so the handle w held is not closed.
EnvAssign(w, s) ==
  /\ w # s
  /\ env[w].alive
  /\ env[s].alive
  /\ last' = Outcome("env::operator=", w, env[w].handle, 0, <<>>, NoErr,
                     "void", env[s].handle)
  /\ env' = [env EXCEPT ![w].handle = env[s].handle]
  /\ UNCHANGED <<txn, dbi, cur, nEnv, nTxn, nCur, envCloses, curCloses>>
  /\ UNCHANGED bind
  /\ UNCHANGED data

\* txn::txn(const txn&), implicit.
TxnCopy(w, s) ==
  /\ w # s
  /\ ~txn[w].alive
  /\ txn[s].alive
  /\ last' = Outcome("txn::txn(const txn&)", w, NULL, 0, <<>>, NoErr,
                     "object", txn[s].handle)
  /\ txn' = [txn EXCEPT ![w] = [alive |-> TRUE, handle |-> txn[s].handle]]
  /\ UNCHANGED <<env, dbi, cur, nEnv, nTxn, nCur, envCloses, curCloses>>
  /\ UNCHANGED bind
  /\ UNCHANGED data

\* txn::operator=(const txn&), implicit.
TxnAssign(w, s) ==
  /\ w # s
  /\ txn[w].alive
  /\ txn[s].alive
  /\ last' = Outcome("txn::operator=", w, txn[w].handle, 0, <<>>, NoErr,
                     "void", txn[s].handle)
  /\ txn' = [txn EXCEPT ![w].handle = txn[s].handle]
  /\ UNCHANGED <<env, dbi, cur, nEnv, nTxn, nCur, envCloses, curCloses>>
  /\ UNCHANGED bind
  /\ UNCHANGED data

\* cursor::cursor(const cursor&), implicit.
CursorCopy(w, s) ==
  /\ w # s
  /\ ~cur[w].alive
  /\ cur[s].alive
  /\ last' = Outcome("cursor::cursor(const cursor&)", w, NULL, 0, <<>>,
                     NoErr, "object", cur[s].handle)
  /\ cur' = [cur EXCEPT ![w] = [alive |-> TRUE, handle |-> cur[s].handle]]
  /\ UNCHANGED <<env, txn, dbi, nEnv, nTxn, nCur, envCloses, curCloses>>
  /\ UNCHANGED bind
  /\ UNCHANGED data

\* cursor::operator=(const cursor&), implicit.
CursorAssign(w, s) ==
  /\ w # s
  /\ cur[w].alive
  /\ cur[s].alive
  /\ last' = Outcome("cursor::operator=", w, cur[w].handle, 0, <<>>, NoErr,
                     "void", cur[s].handle)
  /\ cur' = [cur EXCEPT ![w].handle = cur[s].handle]
  /\ UNCHANGED <<env, txn, dbi, nEnv, nTxn, nCur, envCloses, curCloses>>
  /\ UNCHANGED bind
  /\ UNCHANGED data

\* The lifetimes of two env and two txn objects, with copies.
NextCopy ==
  \/ \E w \in EnvObjs, f \in FlagValues : EnvCreate(w, f)
  \/ \E w \in EnvObjs : Closable(env, envCloses, w) /\ EnvClose(w)
  \/ \E w \in EnvObjs : Closable(env, envCloses, w) /\ EnvDtor(w)
  \/ \E w \in EnvObjs, s \in EnvObjs : EnvCopy(w, s)
  \/ \E w \in EnvObjs, s \in EnvObjs : EnvAssign(w, s)
  \/ \E w \in TxnObjs, e \in EnvObjs : \E p \in Parents(w) : TxnBegin(w, e, p)
  \/ \E w \in TxnObjs : TxnDtor(w)
  \/ \E w \in TxnObjs : TxnCommit(w)
  \/ \E w \in TxnObjs : TxnAbort(w)
  \/ \E w \in TxnObjs, s \in TxnObjs : TxnCopy(w, s)
  \/ \E w \in TxnObjs, s \in TxnObjs : TxnAssign(w, s)

SpecCopy == InitCopy /\ [][NextCopy]_vars

\* The lifetimes of two env and two cursor objects, with copies.
NextCopyCursor ==
  \/ \E w \in EnvObjs, f \in FlagValues : EnvCreate(w, f)
  \/ \E w \in EnvObjs : Closable(env, envCloses, w) /\ EnvClose(w)
  \/ \E w \in EnvObjs : Closable(env, envCloses, w) /\ EnvDtor(w)
  \/ \E w \in EnvObjs, s \in EnvObjs : EnvCopy(w, s)
  \/ \E w \in EnvObjs, s \in EnvObjs : EnvAssign(w, s)
  \/ \E w \in TxnW, e \in EnvObjs : \E p \in Parents(w) : TxnBegin(w, e, p)
  \/ \E w \in DbiW, t \in TxnW, id \in DbiIds : DbiOpen(w, t, id)
  \/ \E w \in CurObjs, t \in TxnW, d \in DbiW : CursorOpen(w, t, d)
  \/ \E w \in CurObjs : Closable(cur, curCloses, w) /\ CursorClose(w)
  \/ \E w \in CurObjs : Closable(cur, curCloses, w) /\ CursorDtor(w)
  \/ \E w \in CurObjs, s \in CurObjs : CursorCopy(w, s)
  \/ \E w \in CurObjs, s \in CurObjs : CursorAssign(w, s)

SpecCopyCursor == InitCopy /\ [][NextCopyCursor]_vars

(***************************************************************************)
(* Properties.                                                             *)
(***************************************************************************)
\* The engine calls of the last operation that returned a nonzero status.
Failed == {i \in DOMAIN last.calls :
             ~last.calls[i].void /\ last.calls[i].rc # 0}

\* The error class the documented table gives a status code.
TableKind(rc) ==
  CASE rc = -30799 -> "key_exist_error"
    [] rc = -30798 -> "not_found_error"
    [] rc = -30796 -> "corrupted_error"
    [] rc = -30795 -> "panic_error"
    [] OTHER -> "runtime_error"

\* C1: for every nonzero status code rc, lmdb::error::raise(origin, rc)
\* raises exactly one error, carrying rc, whose kind is fixed by rc alone
\* (MDB_KEYEXIST: key_exist_error, MDB_NOTFOUND: not_found_error,
\* MDB_CORRUPTED: corrupted_error, MDB_PANIC: panic_error, any other nonzero
\* code: runtime_error); and every error any operation raises has the kind
\* the table gives its code.
C1_RaiseKindByCode ==
  /\ (last.op = "error::raise" /\ last.arg # 0) =>
       /\ last.err # NoErr
       /\ last.ret = "none"
       /\ last.err.code = last.arg
       /\ last.err.kind = TableKind(last.arg)
  /\ last.err # NoErr => last.err.kind = TableKind(last.err.code)

C1_Witness ==
  /\ last.op = "error::raise"
  /\ last.arg = -30798
  /\ last.err.kind = "not_found_error"

\* C2 as stated: for status code zero, lmdb::error::raise never raises.
C2_RaiseZeroNeverRaises ==
  (last.op = "error::raise" /\ last.arg = 0) => last.err = NoErr

\* C2, amended: lmdb::error::raise called with status zero raises the
\* generic runtime_error carrying code 0 (every path of the switch throws);
\* what never raises on status zero is an engine-wrapping operation: one
\* whose engine calls all returned zero leaves no error in flight.
C2_ZeroStatus ==
  /\ (last.op = "error::raise" /\ last.arg = 0) =>
       /\ last.err.kind = "runtime_error"
       /\ last.err.code = 0
       /\ last.ret = "none"
  /\ (last.op # "error::raise" /\ Failed = {}) => last.err = NoErr

C2_Witness ==
  /\ last.op = "error::raise"
  /\ last.arg = 0
  /\ last.err.kind = "runtime_error"

\* The operations built on the checked wrappers other than dbi_get and
\* cursor_get.
CheckedOps ==
  {"env::create", "env::open", "env::sync", "env::set_flags",
   "env::set_map_size", "env::set_max_readers", "env::set_max_dbs",
   "txn::begin", "txn::commit", "txn::renew", "dbi::open", "dbi::stat",
   "dbi::flags", "cursor::open", "cursor::renew", "cursor_put",
   "cursor_del", "cursor_count"}

\* C3: an engine-wrapping operation other than dbi_get and cursor_get
\* raises if and only if an engine call of it returned a nonzero status;
\* the error carries that status code, and as its origin the name of the
\* engine function that returned it; the operation makes no further
\* status-returning engine call after the failure.
C3_RaisesIffNonzero ==
  last.op \in CheckedOps =>
    /\ (last.err # NoErr) <=> (Failed # {})
    /\ \A i \in Failed :
         /\ last.err.code = last.calls[i].rc
         /\ last.err.origin = last.calls[i].fn
         /\ \A j \in DOMAIN last.calls : j > i => last.calls[j].void

C3_Witness ==
  /\ last.op = "txn::commit"
  /\ last.err.code = -30792
  /\ last.err.origin = "mdb_txn_commit"
  /\ last.err.kind = "runtime_error"

\* C4: dbi::get, cursor::get and cursor::find return true when the engine
\* returns success, return false without raising when it returns
\* MDB_NOTFOUND, and raise (returning nothing) on any other status.
C4_GetFoundAbsentError ==
  last.op \in {"dbi::get", "cursor::get", "cursor::find"} =>
    /\ Len(last.calls) = 1
    /\ LET rc == last.calls[1].rc
       IN /\ rc = 0 => last.ret = "true" /\ last.err = NoErr
          /\ rc = -30798 => last.ret = "false" /\ last.err = NoErr
          /\ rc \notin {0, -30798} =>
               /\ last.ret = "none"
               /\ last.err # NoErr
               /\ last.err.code = rc

C4_Witness ==
  /\ last.op = "dbi::get"
  /\ last.calls[1].rc = -30798
  /\ last.ret = "false"
  /\ last.err = NoErr

\* C5: close() on an env or a cursor holding a handle invokes the engine's
\* close once on that handle and nulls the handle; a close() (or the
\* destructor) right after a close() of the same object invokes nothing,
\* raises nothing and leaves the object as it was, its handle null.
C5_CloseTwice ==
  [][/\ \A w \in EnvW :
          /\ (last'.op = "env::close" /\ last'.w = w /\ env[w].handle # NULL)
               => /\ last'.calls = <<VoidCall("mdb_env_close", env[w].handle)>>
                  /\ last'.err = NoErr
                  /\ env'[w].handle = NULL
          /\ (/\ last.op = "env::close" /\ last.w = w
              /\ last'.op \in {"env::close", "env::~env"} /\ last'.w = w)
               => /\ last'.calls = <<>>
                  /\ last'.err = NoErr
                  /\ envCloses' = envCloses
                  /\ env[w].handle = NULL
                  /\ last'.op = "env::close" => env' = env
     /\ \A w \in CurW :
          /\ (last'.op = "cursor::close" /\ last'.w = w
              /\ cur[w].handle # NULL)
               => /\ last'.calls
                       = <<VoidCall("mdb_cursor_close", cur[w].handle)>>
                  /\ last'.err = NoErr
                  /\ cur'[w].handle = NULL
          /\ (/\ last.op = "cursor::close" /\ last.w = w
              /\ last'.op \in {"cursor::close", "cursor::~cursor"}
              /\ last'.w = w)
               => /\ last'.calls = <<>>
                  /\ last'.err = NoErr
                  /\ curCloses' = curCloses
                  /\ cur[w].handle = NULL
                  /\ last'.op = "cursor::close" => cur' = cur
    ]_vars

\* A close() of an env whose handle an earlier close() has nulled.
C5_Witness ==
  /\ last.op = "env::close"
  /\ last.pre = NULL
  /\ last.calls = <<>>
  /\ env[last.w].handle = NULL
  /\ \E h \in Handles : envCloses[h] = 1

\* C6: after txn::commit() returns without raising, handle() is null.
C6_CommitNullsHandle ==
  (last.op = "txn::commit" /\ last.err = NoErr) =>
    txn[last.w].handle = NULL

C6_Witness ==
  /\ last.op = "txn::commit"
  /\ last.err = NoErr
  /\ last.pre # NULL
  /\ txn[last.w].handle = NULL

\* C7: after txn::commit() fails (the engine returns a nonzero status and
\* an error is raised), the txn object no longer holds a non-null handle
\* that a later commit(), abort(), reset() or renew() would pass to the
\* engine.
C7_FailedCommitInvalidates ==
  (last.op = "txn::commit" /\ last.err # NoErr) =>
    txn[last.w].handle = NULL

\* C8: after txn::abort(), called in any state of the txn object,
\* handle() is null.
C8_AbortNullsHandle ==
  last.op = "txn::abort" => txn[last.w].handle = NULL

C8_Witness ==
  /\ last.op = "txn::abort"
  /\ last.pre # NULL
  /\ txn[last.w].handle = NULL

\* C9: env::close(), cursor::close() and txn::abort() (and the destructors
\* built on close) never raise, whatever the state of the object.
C9_CleanupNeverRaises ==
  last.op \in {"env::close", "cursor::close", "txn::abort", "env::~env",
               "cursor::~cursor"} =>
    /\ last.err = NoErr
    /\ last.ret = "void"

\* A close() of an already closed env, which raised nothing.
C9_Witness ==
  /\ last.op = "env::close"
  /\ last.pre = NULL
  /\ last.err = NoErr
  /\ last.ret = "void"

\* C10: once a txn object has been committed or aborted (its handle is
\* null), any further commit, abort, reset, renew or env through it is
\* rejected as a logic error and does not reach the engine.
C10_FinishedTxnRejected ==
  (/\ last.op \in {"txn::commit", "txn::abort", "txn::reset", "txn::renew",
                   "txn::env"}
   /\ last.pre = NULL) =>
    /\ last.calls = <<>>
    /\ last.err.kind = "logic_error"

\* ---------------------------------------------------------------------
\* C11: env::create(flags) never leaks an engine handle.  When
\* mdb_env_create fails it is the only engine call, it yielded no handle
\* and no wrapper exists.  When it succeeds and mdb_env_set_flags fails,
\* the engine calls are create, set_flags, close, all on the fresh handle,
\* that handle has been closed exactly once, the error of set_flags is
\* raised and no wrapper exists.  When create returns a wrapper, the
\* wrapper holds the fresh handle and the handle has not been closed.
C11_CreateNeverLeaks ==
  last.op = "env::create" =>
    LET c == last.calls
    IN /\ c[1].fn = "mdb_env_create"
       /\ IF c[1].rc # MDB_SUCCESS
          THEN /\ Len(c) = 1
               /\ c[1].h = NULL
               /\ last.err # NoErr
               /\ ~env[last.w].alive
          ELSE /\ c[1].h = nEnv
               /\ IF last.err # NoErr
                  THEN /\ Len(c) = 3
                       /\ c[2] = Call("mdb_env_set_flags", nEnv, last.err.code)
                       /\ c[3] = VoidCall("mdb_env_close", nEnv)
                       /\ envCloses[nEnv] = 1
                       /\ last.arg # 0
                       /\ last.ret = "none" /\ last.retH = NULL
                       /\ ~env[last.w].alive
                  ELSE /\ env[last.w] = Holding(nEnv)
                       /\ last.retH = nEnv
                       /\ envCloses[nEnv] = 0

\* C11 witness: create succeeded, applying the flags failed, and the fresh
\* handle was closed before the error left env::create.
C11_Witness ==
  /\ last.op = "env::create"
  /\ last.err # NoErr
  /\ Len(last.calls) = 3
  /\ last.calls[3].fn = "mdb_env_close"
  /\ envCloses[nEnv] = 1
  /\ ~env[last.w].alive

\* ---------------------------------------------------------------------
\* C12: use of a closed Environment is prevented: an operation other than
\* close() on an env wrapper whose handle is null (as it is after
\* env::close()) makes no engine call.
C12_ClosedEnvNotUsed ==
  (/\ last.op \in {"env::sync", "env::open", "env::set_flags",
                   "env::set_map_size", "env::set_max_readers",
                   "env::set_max_dbs"}
   /\ last.pre = NULL)
  => last.calls = <<>>

C15_NoOutliving ==
  /\ \A c \in CurW :
       (cur[c].alive /\ cur[c].handle # NULL) => curTxn[c] \in Handles
  /\ \A t \in TxnW :
       (txn[t].alive /\ txn[t].handle # NULL) =>
         (txnEnv[t] \in Handles /\ envCloses[txnEnv[t]] = 0)

\* ---------------------------------------------------------------------
\* C16: a Database Handle stays valid across transactions.  No step
\* changes the identifier of a dbi object that exists before and after
\* it: not stat, flags, size or get, and not the commit or abort of the
\* transaction it was opened in.  stat, flags, size and get pass exactly
\* that identifier to the engine, whichever transaction they are given.
\* Destroying the dbi wrapper makes no engine call, and no operation calls
\* the engine's dbi close.
DbiOps == {"dbi::stat", "dbi::flags", "dbi::size", "dbi::get"}

C16_DbiIdFixed ==
  [][/\ \A w \in DbiW :
          (dbi[w].alive /\ dbi'[w].alive) => dbi'[w].handle = dbi[w].handle
     /\ last'.op \in DbiOps =>
          /\ last'.calls # <<>>
          /\ \A i \in DOMAIN last'.calls :
               last'.calls[i].dbi = dbi[last'.w].handle
     /\ last'.op = "dbi::~dbi" => last'.calls = <<>>
     /\ \A i \in DOMAIN last'.calls : last'.calls[i].fn # "mdb_dbi_close"]_vars

\* C16 witness: stat succeeded with the wrapper's identifier in a
\* transaction begun after the one that opened the handle had ended.
C16_Witness ==
  /\ last.op = "dbi::stat"
  /\ last.err = NoErr
  /\ last.calls[1].dbi = dbi[last.w].handle
  /\ last.calls[1].h \in Handles
  /\ \E h \in Handles \ {last.calls[1].h} : dbiTxn[last.w] = Ended(h)

\* ---------------------------------------------------------------------
\* C13: a Cursor that has been closed can be resurrected by
\* renew(transaction): whenever a cursor object has been closed (its
\* handle is null) and a transaction with a handle exists, renew(txn) can
\* succeed and leave the cursor open again, holding an engine cursor handle.
C13_ClosedCursorRenewable ==
  \A c \in CurW, t \in TxnW :
    (/\ cur[c].alive
     /\ cur[c].handle = NULL
     /\ txn[t].alive
     /\ txn[t].handle # NULL)
    => ENABLED (/\ CursorRenew(c, t)
                /\ last'.err = NoErr
                /\ cur'[c].handle # NULL)

\* ---------------------------------------------------------------------
\* C17: round trip.  When key k holds the committed value v (v was put in
\* a writer transaction that was then committed) and a later transaction
\* has not written k, dbi::get(txn, k, out) in that transaction returns
\* found and sets out to exactly v.
C17_RoundTrip ==
  (/\ last.op = "dbi::get(k, v)"
   /\ last.err = NoErr
   /\ committed[last.arg] # <<>>
   /\ view[last.arg] = committed[last.arg])
  => (last.ret = "true" /\ last.val = committed[last.arg])

\* ---------------------------------------------------------------------
\* C19: the generic accessor dbi::get(txn, k, v) never reads more bytes of
\* the stored value than the stored value's length: when it reports found,
\* the bytes it read are at most the bytes stored under k, and the value it
\* hands back is a prefix of the stored value.
C19_ReadsWithinStored ==
  (/\ last.op = "dbi::get(k, v)"
   /\ last.err = NoErr
   /\ last.ret = "true")
  => /\ last.read <= Len(view[last.arg])
     /\ last.val = SubSeq(view[last.arg], 1, last.read)

\* ---------------------------------------------------------------------
\* C20: dbi::size(txn) equals the entry count of dbi::stat(txn) taken in
\* the same transaction state, and raises exactly when stat raises.  size
\* makes the one engine call stat makes, with the same transaction and
\* identifier; it raises what dbi_stat raises for the engine's status, and
\* otherwise returns the ms_entries of the MDB_stat that stat returns in
\* this state.  stat itself returns that MDB_stat.
C20_SizeIsStatEntries ==
  /\ last.op = "dbi::size" =>
       /\ Len(last.calls) = 1
       /\ LET c == last.calls[1]
              s == dbi_stat(c.h, c.dbi, c.rc)
          IN /\ c = s.call
             /\ c.dbi = last.pre
             /\ last.err = s.err
             /\ (last.err = NoErr) = (c.rc = MDB_SUCCESS)
             /\ last.err = NoErr => last.val = MdbStat(Seen).ms_entries
  /\ (last.op = "dbi::stat" /\ last.err = NoErr) => last.val = MdbStat(Seen)

\* C20 witness: size returned the entry count of a store that holds keys.
C20_Witness ==
  /\ last.op = "dbi::size"
  /\ last.err = NoErr
  /\ view # NoView
  /\ Present(view) # {}
  /\ last.val = Cardinality(Present(view))
  /\ last.val # MdbStat(view).ms_depth

\* ---------------------------------------------------------------------
\* The i-th smallest key of a set of keys.
KeyAt(S, i) == CHOOSE k \in S : Cardinality({j \in S : j < k}) = i - 1

\* C18: on a database holding a set of keys, a cursor positioned with
\* "first" and advanced with "next" has returned the keys in ascending
\* order, each once: the keys returned so far are the smallest keys of the
\* database, in order.  A first or next that returns false raises nothing
\* and, in a walk begun with "first", comes after every key was returned.
\* A get or find raises only when the engine answers an error status.
\* find(k) returns true exactly when k is present, positions the cursor on
\* k when it returns true, and raises nothing when it returns false.
C18_CursorSequencing ==
  /\ \A c \in CurW :
       (CursorActive(c) /\ scan[c].from = "first") =>
         /\ Len(scan[c].keys) <= Cardinality(Present(view))
         /\ \A i \in DOMAIN scan[c].keys :
              scan[c].keys[i] = KeyAt(Present(view), i)
  /\ last.op \in {"cursor::get", "cursor::find"} =>
       /\ (last.err # NoErr) =
            (last.calls[1].rc \notin {MDB_SUCCESS, MDB_NOTFOUND})
       /\ (last.ret = "true") = (last.calls[1].rc = MDB_SUCCESS)
       /\ (last.ret = "false") = (last.calls[1].rc = MDB_NOTFOUND)
  /\ (last.op = "cursor::get" /\ last.ret = "true") =>
       last.val.key = scan[last.w].keys[Len(scan[last.w].keys)]
  /\ (last.op = "cursor::get" /\ last.ret = "false"
      /\ scan[last.w].from = "first") =>
       Len(scan[last.w].keys) = Cardinality(Present(view))
  /\ (last.op = "cursor::find" /\ last.err = NoErr) =>
       /\ (last.ret = "true") = (last.arg \in Present(view))
       /\ last.ret = "true" =>
            scan[last.w] = [from |-> "find", keys |-> <<last.arg>>]

\* C18 witness: a walk begun with "first" returned every key of a database
\* holding more than one key, in ascending order, and the next "next"
\* returned false.
C18_Witness ==
  /\ last.op = "cursor::get"
  /\ last.val.op = "MDB_NEXT"
  /\ last.ret = "false"
  /\ last.err = NoErr
  /\ scan[last.w].from = "first"
  /\ Present(view) = Keys
  /\ scan[last.w].keys = [i \in 1..MaxKey |-> i]

\* ---------------------------------------------------------------------
\* C21: dbi::get(txn, k, v) writes the caller's output v only when the
\* lookup finds the key.  When it returns false or raises, it copied no
\* byte into v and v is as the caller left it; it returns false exactly
\* when the engine answers MDB_NOTFOUND, and when it returns true it wrote
\* sizeof(V) bytes.
C21_OutputOnlyWhenFound ==
  last.op = "dbi::get(k, v)" =>
    /\ (last.ret = "false" \/ last.err # NoErr) =>
         (last.val = <<>> /\ last.read = 0)
    /\ (last.ret = "false") = (last.calls[1].rc = MDB_NOTFOUND)
    /\ last.ret = "true" => (last.read \in ValueSizes
                             /\ Len(last.val) = last.read)

\* C21 witness: the key was absent, get returned false without raising
\* and left v alone.
C21_Witness ==
  /\ last.op = "dbi::get(k, v)"
  /\ last.ret = "false"
  /\ last.err = NoErr
  /\ last.arg \notin Present(view)
  /\ last.val = <<>>
  /\ last.read = 0

\* ---------------------------------------------------------------------
\* C22: destroying a Transaction wrapper whose handle is still non-null
\* only nulls the wrapper's handle.  A step of ~txn makes no engine call,
\* neither abort nor commit, and raises nothing; the wrapper is gone after
\* it; the engine transaction is left unresolved: the cursors and database
\* handles bound to it stay bound to a transaction that has not ended, and
\* the committed store is unchanged.
C22_DtorLeavesTxnUnresolved ==
  [][last'.op = "txn::~txn" =>
       /\ last'.calls = <<>>
       /\ last'.err = NoErr
       /\ txn'[last'.w] = Gone
       /\ last'.pre = txn[last'.w].handle
       /\ curTxn' = curTxn
       /\ dbiTxn' = dbiTxn
       /\ committed' = committed]_vars

\* C22 witness: a transaction wrapper with a handle was destroyed while a
\* cursor was bound to its transaction, and that transaction has not ended.
C22_Witness ==
  /\ last.op = "txn::~txn"
  /\ last.pre # NULL
  /\ last.calls = <<>>
  /\ \E c \in CurW : cur[c].handle # NULL /\ curTxn[c] = last.pre

\* ---------------------------------------------------------------------
\* C23: the handle of every env, txn and cursor object is monotone.  Over
\* any step that an object survives, a null handle stays null and a
\* non-null handle either stays the same handle or becomes null: no
\* operation replaces it with a different handle.
C23_HandleMonotone ==
  [][\A w \in DOMAIN env \cup DOMAIN txn \cup DOMAIN cur :
       LET o  == IF w \in DOMAIN env THEN env[w]
                 ELSE IF w \in DOMAIN txn THEN txn[w] ELSE cur[w]
           o2 == IF w \in DOMAIN env THEN env'[w]
                 ELSE IF w \in DOMAIN txn THEN txn'[w] ELSE cur'[w]
       IN (o.alive /\ o2.alive) => o2.handle \in {o.handle, NULL}]_vars

\* ---------------------------------------------------------------------
\* C24: each engine handle is released at most once.  Over any sequence
\* of operations on env and cursor objects, copies and destructions
\* included, the engine's close has been invoked at most once on each
\* environment handle and at most once on each cursor handle.
C24_ReleasedAtMostOnce ==
  \A h \in Handles : envCloses[h] <= 1 /\ curCloses[h] <= 1

====
